---- MODULE Spec2Model ----
(***************************************************************************)
(* Model of lucetc's option assembly (lucetc/lucetc/options.rs) and of the *)
(* lucet-idl build-verification helpers (lucet-idl-test/src/compile.rs).   *)
(*                                                                         *)
(* Strings whose characters the code inspects (CPU preset names, feature   *)
(* tokens, human-readable sizes) are sequences of one-character strings;   *)
(* strings the code only compares whole (emit, opt-level, paths) are       *)
(* atomic.  Option<T> is a sequence of length 0 or 1.                      *)
(***************************************************************************)
EXTENDS Integers, Sequences, FiniteSets, TLC

VARIABLES m, opt_pc, ret, inv, dirs, files

vars == <<m, opt_pc, ret, inv, dirs, files>>

---------------------------------------------------------------------------
(* Option and Result values *)

None == <<>>

Some(v) == <<v>>

IsSome(o) == Len(o) = 1

Unwrap(o) == o[1]

Ok(v) == [tag |-> "Ok", val |-> v]

Err(e) == [tag |-> "Err", err |-> e]

Panic(msg) == [tag |-> "Panic", msg |-> msg]

---------------------------------------------------------------------------
(* Bounds *)

\* longest --target-feature token sequence explored
MaxTokens == 2

\* number of verification invocations that may run concurrently
MaxInv == 2

\* number of directory names the temporary-directory generator can draw
NumDirNames == 2

---------------------------------------------------------------------------
(* Character-level strings *)

Str_baseline == <<"b","a","s","e","l","i","n","e">>

Str_nehalem == <<"n","e","h","a","l","e","m">>

Str_haswell == <<"h","a","s","w","e","l","l">>

Str_broadwell == <<"b","r","o","a","d","w","e","l","l">>

Str_skylake == <<"s","k","y","l","a","k","e">>

Str_cannonlake == <<"c","a","n","n","o","n","l","a","k","e">>

Str_icelake == <<"i","c","e","l","a","k","e">>

Str_znver1 == <<"z","n","v","e","r","1">>

Str_sse3 == <<"s","s","e","3">>

Str_ssse3 == <<"s","s","s","e","3">>

Str_sse41 == <<"s","s","e","4","1">>

Str_sse42 == <<"s","s","e","4","2">>

Str_popcnt == <<"p","o","p","c","n","t">>

Str_avx == <<"a","v","x">>

Str_bmi1 == <<"b","m","i","1">>

Str_bmi2 == <<"b","m","i","2">>

Str_lzcnt == <<"l","z","c","n","t">>

UpperToLower ==
    [c \in {"A","B","C","D","E","H","I","K","L","M","N","O","R","S","T","U","V","W","Y","Z"} |->
        CASE c = "A" -> "a" [] c = "B" -> "b" [] c = "C" -> "c" [] c = "D" -> "d"
          [] c = "E" -> "e" [] c = "H" -> "h" [] c = "I" -> "i" [] c = "K" -> "k"
          [] c = "L" -> "l" [] c = "M" -> "m" [] c = "N" -> "n" [] c = "O" -> "o"
          [] c = "R" -> "r" [] c = "S" -> "s" [] c = "T" -> "t" [] c = "U" -> "u"
          [] c = "V" -> "v" [] c = "W" -> "w" [] c = "Y" -> "y" [] c = "Z" -> "z"]

\* str::to_lowercase, character by character
to_lowercase(s) ==
    [i \in 1..Len(s) |-> IF s[i] \in DOMAIN UpperToLower THEN UpperToLower[s[i]] ELSE s[i]]

---------------------------------------------------------------------------
(* lucetc::TargetCpu and lucetc::SpecificFeatures *)

FeatureFlags ==
    {"has_sse3", "has_ssse3", "has_sse41", "has_sse42", "has_popcnt",
     "has_avx", "has_bmi1", "has_bmi2", "has_lzcnt"}

NehalemFlags == {"has_sse3", "has_ssse3", "has_sse41", "has_sse42", "has_popcnt"}

\* SpecificFeatures::from(TargetCpu): the default feature set of each preset
TargetCpuInto(cpu) ==
    [f \in FeatureFlags |->
        CASE cpu = "Baseline" -> FALSE
          [] cpu = "Nehalem" -> f \in NehalemFlags
          [] OTHER -> TRUE]

\* the match on the lower-cased preset name
PresetOfName(s) ==
    LET l == to_lowercase(s) IN
    CASE l = Str_baseline -> Some("Baseline")
      [] l = Str_nehalem -> Some("Nehalem")
      [] l = Str_haswell -> Some("Haswell")
      [] l = Str_broadwell -> Some("Broadwell")
      [] l = Str_skylake -> Some("Skylake")
      [] l = Str_cannonlake -> Some("Cannonlake")
      [] l = Str_icelake -> Some("Icelake")
      [] l = Str_znver1 -> Some("Znver1")
      [] OTHER -> None

\* the match on &f[1..]: the field a feature name assigns
FlagOfName(n) ==
    CASE n = Str_sse3 -> Some("has_sse3")
      [] n = Str_ssse3 -> Some("has_ssse3")
      [] n = Str_sse41 -> Some("has_sse41")
      [] n = Str_sse42 -> Some("has_sse42")
      [] n = Str_popcnt -> Some("has_popcnt")
      [] n = Str_avx -> Some("has_avx")
      [] n = Str_bmi1 -> Some("has_bmi1")
      [] n = Str_bmi2 -> Some("has_bmi2")
      [] n = Str_lzcnt -> Some("has_lzcnt")
      [] OTHER -> None

\* f.chars().nth(0) matched against '+' and '-'
SignOfToken(f) ==
    IF Len(f) = 0 THEN None
    ELSE IF f[1] = "+" THEN Some(TRUE)
    ELSE IF f[1] = "-" THEN Some(FALSE)
    ELSE None

\* one iteration of `for f in features`: the updated set, or the unreachable! panic
ApplyToken(acc, f) ==
    IF acc.tag # "Ok" THEN acc
    ELSE LET b == SignOfToken(f) IN
         IF ~IsSome(b) THEN Panic("invalid feature string despite passing validation")
         ELSE LET flag == FlagOfName(SubSeq(f, 2, Len(f))) IN
              IF ~IsSome(flag) THEN Panic("invalid feature string despite passing validation")
              ELSE [acc EXCEPT !.val[Unwrap(flag)] = Unwrap(b)]

RECURSIVE ApplyTokensReversed(_, _)
\* mutant: the tokens applied right to left, so the first token wins
ApplyTokensReversed(acc, fs) ==
    IF fs = <<>> THEN acc
    ELSE ApplyTokensReversed(ApplyToken(acc, fs[Len(fs)]), SubSeq(fs, 1, Len(fs) - 1))

RECURSIVE ApplyTokens(_, _)
\* the whole `for f in features` loop, left to right
ApplyTokens(acc, fs) ==
    IF fs = <<>> THEN acc
    ELSE ApplyTokens(ApplyToken(acc, Head(fs)), Tail(fs))

DetectCpuid == [mode |-> "DetectCpuid"]

Specify(sfs) == [mode |-> "Specify", sfs |-> sfs]

\* mutant: host detection as soon as either argument is absent
cpu_features_from_args_Or(cpu, features) ==
    IF ~IsSome(cpu) \/ Len(features) = 0 THEN Ok(DetectCpuid)
    ELSE
    LET preset == PresetOfName(Unwrap(cpu)) IN
    IF ~IsSome(preset) THEN Err(<<"unsupported CPU", Unwrap(cpu)>>)
    ELSE LET r == ApplyTokens(Ok(TargetCpuInto(Unwrap(preset))), features) IN
         IF r.tag = "Ok" THEN Ok(Specify(r.val)) ELSE r

\* mutant: an unknown preset name falls back to the baseline preset
cpu_features_from_args_Fallback(cpu, features) ==
    IF ~IsSome(cpu) /\ Len(features) = 0 THEN Ok(DetectCpuid)
    ELSE
    LET preset == IF ~IsSome(cpu) THEN Some("Baseline") ELSE PresetOfName(Unwrap(cpu)) IN
    LET r == ApplyTokens(Ok(TargetCpuInto(IF IsSome(preset) THEN Unwrap(preset) ELSE "Baseline")),
                         features) IN
    IF r.tag = "Ok" THEN Ok(Specify(r.val)) ELSE r

cpu_features_from_args(cpu, features) ==
    IF ~IsSome(cpu) /\ Len(features) = 0 THEN Ok(DetectCpuid)
    ELSE
    LET preset == IF ~IsSome(cpu) THEN Some("Baseline") ELSE PresetOfName(Unwrap(cpu)) IN
    IF ~IsSome(preset) THEN Err(<<"unsupported CPU", Unwrap(cpu)>>)
    ELSE LET r == ApplyTokens(Ok(TargetCpuInto(Unwrap(preset))), features) IN
         IF r.tag = "Ok" THEN Ok(Specify(r.val)) ELSE r

---------------------------------------------------------------------------
(* parse_humansized: human_size's Size parser, then the u64 fallback *)

Digits == {"0","1","2","3","4","5","6","7","8","9"}

DigitVal(c) ==
    CASE c = "0" -> 0 [] c = "1" -> 1 [] c = "2" -> 2 [] c = "3" -> 3 [] c = "4" -> 4
      [] c = "5" -> 5 [] c = "6" -> 6 [] c = "7" -> 7 [] c = "8" -> 8 [] c = "9" -> 9

RECURSIVE DecimalValue(_)
\* the number a string of decimal digits denotes
DecimalValue(ds) ==
    IF ds = <<>> THEN 0
    ELSE 10 * DecimalValue(SubSeq(ds, 1, Len(ds) - 1)) + DigitVal(ds[Len(ds)])

RECURSIVE Pow10(_)
Pow10(k) == IF k = 0 THEN 1 ELSE 10 * Pow10(k - 1)

RECURSIVE Trim(_)
\* str::trim for the space character
Trim(s) ==
    IF s = <<>> THEN s
    ELSE IF Head(s) = " " THEN Trim(Tail(s))
    ELSE IF s[Len(s)] = " " THEN Trim(SubSeq(s, 1, Len(s) - 1))
    ELSE s

\* str::parse::<u64>: decimal digits only, no surrounding space (the sizes
\* explored stay far below 2^64, so the range error is not modelled)
ParseU64(s) ==
    IF s = <<>> \/ \E i \in 1..Len(s) : s[i] \notin Digits THEN Err("ParseIntError")
    ELSE Ok(DecimalValue(s))

\* human_size's multiples, as the number of bytes of one unit
ParseMultiple(u) ==
    CASE u = <<"B">> -> Some(1)
      [] u = <<"k","B">> -> Some(1000)
      [] u = <<"M","B">> -> Some(1000000)
      [] u = <<"K","i","B">> -> Some(1024)
      [] u = <<"M","i","B">> -> Some(1048576)
      [] u = <<"G","i","B">> -> Some(1073741824)
      [] OTHER -> None

\* the value part as a fraction [num, den], or None when it is no decimal number
ParseValue(v) ==
    LET dots == {i \in 1..Len(v) : v[i] = "."} IN
    IF Cardinality(dots) > 1 \/ Len(v) = Cardinality(dots) THEN None
    ELSE IF dots = {} THEN Some([num |-> DecimalValue(v), den |-> 1])
    ELSE LET d == CHOOSE i \in dots : TRUE
             ip == SubSeq(v, 1, d - 1)
             fp == SubSeq(v, d + 1, Len(v))
         IN  Some([num |-> DecimalValue(ip) * Pow10(Len(fp)) + DecimalValue(fp),
                   den |-> Pow10(Len(fp))])

\* desc.parse::<Size>(): Ok(bytes) or Err(ParsingError)
ParseSize(desc) ==
    LET input == Trim(desc)
        nonnum == {i \in 1..Len(input) : input[i] \notin Digits \cup {"."}}
    IN
    IF input = <<>> THEN Err("EmptyInput")
    ELSE IF nonnum = {} THEN Err("MissingMultiple")
    ELSE LET idx == CHOOSE i \in nonnum : \A j \in nonnum : i <= j
             value == ParseValue(SubSeq(input, 1, idx - 1))
             mult == ParseMultiple(Trim(SubSeq(input, idx, Len(input))))
         IN
         IF idx = 1 THEN Err("MissingValue")
         ELSE IF ~IsSome(value) THEN Err("InvalidValue")
         ELSE IF ~IsSome(mult) THEN Err("InvalidMultiple")
         ELSE Ok((Unwrap(value).num * Unwrap(mult)) \div Unwrap(value).den)

parse_humansized(desc) ==
    LET r == ParseSize(desc) IN
    IF r.tag = "Ok" THEN r
    ELSE IF r.err = "MissingMultiple" THEN ParseU64(desc)
    ELSE r

\* `if let Some(s) = m.value_of(..) { Some(parse_humansized(s)?) } else { None }`
ParseOptSize(arg) ==
    IF ~IsSome(arg) THEN Ok(None)
    ELSE LET r == parse_humansized(Unwrap(arg)) IN
         IF r.tag = "Ok" THEN Ok(Some(r.val)) ELSE r

---------------------------------------------------------------------------
(* Options::from_args *)

\* the struct literal at the end of from_args
MakeOptions(am, codegen, min_reserved_size, max_reserved_size, reserved_size, guard_size, opt_level, cpu_features) ==
    [output |-> IF IsSome(am.output) THEN Unwrap(am.output) ELSE "a.out",
     input |-> am.input,
     codegen |-> codegen,
     binding_files |-> am.bindings,
     builtins_path |-> am.builtins,
     min_reserved_size |-> min_reserved_size,
     max_reserved_size |-> max_reserved_size,
     reserved_size |-> reserved_size,
     guard_size |-> guard_size,
     opt_level |-> opt_level,
     cpu_features |-> cpu_features,
     keygen |-> am.keygen,
     sign |-> am.sign,
     verify |-> am.verify,
     sk_path |-> am.sk_path,
     pk_path |-> am.pk_path,
     count_instructions |-> am.count_instructions]

\* the match on m.value_of("emit"); None stands for the panic arm
CodegenOfEmit(emit) ==
    CASE emit = None -> Some("SharedObj")
      [] emit = Some("clif") -> Some("Clif")
      [] emit = Some("obj") -> Some("Obj")
      [] emit = Some("so") -> Some("SharedObj")
      [] OTHER -> None

\* the match on m.value_of("opt_level"); None stands for the panic arm
\* (OptLevel::default() is the level the help text gives as the default, '1')
OptLevelOfArg(lvl) ==
    CASE lvl = None -> Some("Standard")
      [] lvl = Some("0") -> Some("None")
      [] lvl = Some("1") -> Some("Standard")
      [] lvl = Some("2") -> Some("Fast")
      [] lvl = Some("fast") -> Some("Fast")
      [] OTHER -> None

\* mutant: an exact reserved size clears the min/max pair it overrides
from_args_ExactClears(am) ==
    LET codegen == CodegenOfEmit(am.emit)
        min == ParseOptSize(am.min_reserved_size)
        max == ParseOptSize(am.max_reserved_size)
        exact == ParseOptSize(am.reserved_size)
        guard == ParseOptSize(am.guard_size)
        opt == OptLevelOfArg(am.opt_level)
        cpu == cpu_features_from_args(am.target_cpu, am.target_feature)
    IN
    IF ~IsSome(codegen) THEN Panic("unknown value for emit")
    ELSE IF min.tag # "Ok" THEN min
    ELSE IF max.tag # "Ok" THEN max
    ELSE IF exact.tag # "Ok" THEN exact
    ELSE IF guard.tag # "Ok" THEN guard
    ELSE IF ~IsSome(opt) THEN Panic("unknown value for opt-level")
    ELSE IF cpu.tag # "Ok" THEN cpu
    ELSE Ok(MakeOptions(am, Unwrap(codegen),
                        IF IsSome(exact.val) THEN None ELSE min.val,
                        IF IsSome(exact.val) THEN None ELSE max.val,
                        exact.val, guard.val, Unwrap(opt), cpu.val))

from_args(am) ==
    LET codegen == CodegenOfEmit(am.emit)
        min == ParseOptSize(am.min_reserved_size)
        max == ParseOptSize(am.max_reserved_size)
        exact == ParseOptSize(am.reserved_size)
        guard == ParseOptSize(am.guard_size)
        opt == OptLevelOfArg(am.opt_level)
        cpu == cpu_features_from_args(am.target_cpu, am.target_feature)
    IN
    IF ~IsSome(codegen) THEN Panic("unknown value for emit")
    ELSE IF min.tag # "Ok" THEN min
    ELSE IF max.tag # "Ok" THEN max
    ELSE IF exact.tag # "Ok" THEN exact
    ELSE IF guard.tag # "Ok" THEN guard
    ELSE IF ~IsSome(opt) THEN Panic("unknown value for opt-level")
    ELSE IF cpu.tag # "Ok" THEN cpu
    ELSE Ok(MakeOptions(am, Unwrap(codegen), min.val, max.val, exact.val, guard.val,
                        Unwrap(opt), cpu.val))

---------------------------------------------------------------------------
(* Inputs of the option specifications *)

\* the eight names --target-cpu lists as possible values
AcceptedPresets ==
    {Str_baseline, Str_nehalem, Str_haswell, Str_broadwell, Str_skylake,
     Str_cannonlake, Str_icelake, Str_znver1}

Str_HASWELL == <<"H","A","S","W","E","L","L">>

Str_notacpu == <<"n","o","t","a","c","p","u">>

FeatureNames ==
    {Str_sse3, Str_ssse3, Str_sse41, Str_sse42, Str_popcnt, Str_avx, Str_bmi1,
     Str_bmi2, Str_lzcnt}

\* the eighteen tokens --target-feature lists as possible values
WellFormedTokens == {<<sg>> \o n : sg \in {"+", "-"}, n \in FeatureNames}

\* tokens the command line rejects: no sign, an unknown name, the empty string
MalformedTokens == {Str_avx, <<"+","f","m","a">>, <<>>}

SeqsUpTo(S, n) == UNION {[1..k -> S] : k \in 0..n}

Size_4096 == <<"4","0","9","6">>

Size_4KiB == <<"4"," ","K","i","B">>

Size_8192 == <<"8","1","9","2">>

Size_1p5KiB == <<"1",".","5","K","i","B">>

Size_4zz == <<"4"," ","z","z">>

\* the arguments from_args copies or defaults without inspecting them
PassThrough ==
    [input |-> <<"in.wasm">>, output |-> None, bindings |-> <<"b.json">>,
     builtins |-> Some("builtins.so"), keygen |-> FALSE, count_instructions |-> TRUE]

FullArgs(r) ==
    [input |-> PassThrough.input, output |-> PassThrough.output,
     bindings |-> PassThrough.bindings, builtins |-> PassThrough.builtins,
     keygen |-> PassThrough.keygen, count_instructions |-> PassThrough.count_instructions,
     emit |-> r.emit, opt_level |-> r.opt_level,
     min_reserved_size |-> r.min_reserved_size, max_reserved_size |-> r.max_reserved_size,
     reserved_size |-> r.reserved_size, guard_size |-> r.guard_size,
     target_cpu |-> r.target_cpu, target_feature |-> r.target_feature,
     sign |-> r.sign, verify |-> r.verify, sk_path |-> r.sk_path, pk_path |-> r.pk_path]

\* argument sets for cpu_features_from_args alone: every preset and token
CpuArgs ==
    {FullArgs([emit |-> None, opt_level |-> None, min_reserved_size |-> None,
               max_reserved_size |-> None, reserved_size |-> None, guard_size |-> None,
               target_cpu |-> c, target_feature |-> fs,
               sign |-> FALSE, verify |-> FALSE, sk_path |-> None, pk_path |-> None]) :
        c \in {None} \cup {Some(n) : n \in AcceptedPresets \cup {Str_HASWELL, Str_notacpu}},
        fs \in SeqsUpTo(WellFormedTokens \cup MalformedTokens, MaxTokens)}

\* argument sets for from_args
OptArgs ==
    {FullArgs(r) : r \in
        [emit : {None, Some("clif"), Some("obj"), Some("so"), Some("exe")},
         opt_level : {None, Some("0"), Some("fast"), Some("9")},
         min_reserved_size : {None, Some(Size_4096), Some(Size_4zz)},
         max_reserved_size : {None, Some(Size_8192)},
         reserved_size : {None, Some(Size_4KiB), Some(Size_1p5KiB), Some(Size_4zz)},
         guard_size : {None, Some(Size_4KiB)},
         target_cpu : {None, Some(Str_haswell), Some(Str_HASWELL), Some(Str_notacpu)},
         target_feature : {<<>>, << <<"-">> \o Str_avx >>, <<Str_avx>>},
         sign : BOOLEAN, verify : BOOLEAN,
         sk_path : {None, Some("raw:sk.key")}, pk_path : {None, Some("pk.key")}]}

---------------------------------------------------------------------------
(* Specifications of the option functions *)

\* a verification function not yet called
IdleInv ==
    [pc |-> "idle", kind |-> "none", ws |-> None, status |-> None, dump |-> "none",
     outcome |-> "none", msg |-> "", opened |-> FALSE, buf |-> None, read_by |-> {},
     torn |-> FALSE]

InvInit == [i \in 1..MaxInv |-> IdleInv]

InitCpu ==
    /\ m \in CpuArgs
    /\ opt_pc = "start"
    /\ ret = None
    /\ inv = InvInit
    /\ dirs = {}
    /\ files = {}

InitOpts ==
    /\ m \in OptArgs
    /\ opt_pc = "start"
    /\ ret = None
    /\ inv = InvInit
    /\ dirs = {}
    /\ files = {}

\* a call of cpu_features_from_args on the matches' target-cpu and target-feature
CallCpuFeatures ==
    /\ opt_pc = "start"
    /\ opt_pc' = "cpu_features_from_args"
    /\ ret' = Some(cpu_features_from_args(m.target_cpu, m.target_feature))
    /\ UNCHANGED <<m, inv, dirs, files>>

\* a call of Options::from_args on the matches
CallFromArgs ==
    /\ opt_pc = "start"
    /\ opt_pc' = "from_args"
    /\ ret' = Some(from_args(m))
    /\ UNCHANGED <<m, inv, dirs, files>>

NextCpu == CallCpuFeatures

NextOpts == CallCpuFeatures \/ CallFromArgs

SpecCpu == InitCpu /\ [][NextCpu]_vars

SpecOpts == InitOpts /\ [][NextOpts]_vars

---------------------------------------------------------------------------
(* lucet-idl-test compile.rs: rust_test, rust_wasm_codegen, c_codegen *)

Kinds == {"rust_test", "rust_wasm_codegen", "c_codegen"}

DirNames == 1..NumDirNames

\* the file the generated source is written to
GenFile(kind) ==
    CASE kind = "rust_test" -> "lib.rs"
      [] kind = "rust_wasm_codegen" -> "idl.rs"
      [] kind = "c_codegen" -> "example.c"

\* the files the toolchain is given to compile (main.rs pulls in idl.rs by `mod idl;`)
ToolchainInputs(kind) ==
    CASE kind = "rust_test" -> {"lib.rs"}
      [] kind = "rust_wasm_codegen" -> {"main.rs", "idl.rs"}
      [] kind = "c_codegen" -> {"example.c"}

\* the -o argument
OutFile(kind) ==
    CASE kind = "rust_test" -> "example"
      [] kind = "rust_wasm_codegen" -> "example.wasm"
      [] kind = "c_codegen" -> "example.o"

\* the message of the .expect("run ..") on the toolchain's status()
RunMsg(kind) == IF kind = "c_codegen" THEN "run cc" ELSE "run rustc"

\* the statement after the one at pc, per function body
NextPc(kind, pc) ==
    CASE pc = "create_tempdir" ->
            IF kind = "rust_wasm_codegen" THEN "create_main" ELSE "create_file"
      [] pc = "create_main" -> "write_main"
      [] pc = "write_main" -> "create_file"
      [] pc = "create_file" -> "codegen"
      [] pc = "codegen" -> "run_toolchain"
      [] pc = "assert" -> IF kind = "rust_wasm_codegen" THEN "open_wasm" ELSE "return"
      [] pc = "open_wasm" -> "read_wasm"
      [] pc = "read_wasm" -> "return"

\* the statement at pc completed
Advance(r) ==
    LET n == NextPc(r.kind, r.pc) IN
    [r EXCEPT !.pc = n, !.outcome = IF n = "return" THEN "Succeeded" ELSE @]

\* the file system after path (d, n) is written with data by invocation i
WriteFile(fs, d, n, i, data) ==
    {f \in fs : ~(f.dir = d /\ f.name = n)} \cup {[dir |-> d, name |-> n, by |-> i, data |-> data]}

\* the invocations whose files are read at the paths (d, n), n in names
Writers(fs, d, names) == {f.by : f \in {g \in fs : g.dir = d /\ g.name \in names}}

\* TempDir's Drop: the directory and everything in it is removed, and the
\* TempDir value is gone
DropTempDir(i) ==
    IF IsSome(inv[i].ws)
    THEN /\ dirs' = dirs \ {Unwrap(inv[i].ws)}
         /\ files' = {f \in files : f.dir # Unwrap(inv[i].ws)}
    ELSE UNCHANGED <<dirs, files>>

\* mutant: a panic leaves the function without running destructors
Unwind_NoDrop(i, msg) ==
    /\ inv' = [inv EXCEPT ![i] = [@ EXCEPT !.pc = "done", !.outcome = "Failed", !.msg = msg]]
    /\ UNCHANGED <<dirs, files>>

\* a panic (a failed .expect() or assert!): the invocation fails with that
\* message; unwinding drops `tempdir`, if it was created, before the caller sees
\* the failure
Unwind(i, msg) ==
    /\ inv' = [inv EXCEPT ![i] = [@ EXCEPT !.pc = "done", !.outcome = "Failed", !.msg = msg,
                                         !.ws = None, !.torn = IsSome(inv[i].ws)]]
    /\ DropTempDir(i)

\* a call of one of the three functions (callers are interchangeable, so they
\* are numbered in the order of their calls)
Invoke(i, k) ==
    /\ inv[i].pc = "idle"
    /\ \A j \in 1..(i - 1) : inv[j].pc # "idle"
    /\ inv' = [inv EXCEPT ![i] = [IdleInv EXCEPT !.pc = "create_tempdir", !.kind = k]]
    /\ UNCHANGED <<m, opt_pc, ret, dirs, files>>

\* mutant: the directory name is drawn without checking that it is free
TempDirNew_AnyName(i) ==
    /\ inv[i].pc = "create_tempdir"
    /\ \/ \E d \in DirNames :
             /\ dirs' = dirs \cup {d}
             /\ inv' = [inv EXCEPT ![i] = [Advance(@) EXCEPT !.ws = Some(d)]]
             /\ files' = files
       \/ Unwind(i, "create tempdir")
    /\ UNCHANGED <<m, opt_pc, ret>>

\* TempDir::new().expect("create tempdir"): a directory under a name no existing
\* directory has, or an I/O error
TempDirNew(i) ==
    /\ inv[i].pc = "create_tempdir"
    /\ \/ \E d \in DirNames \ dirs :
             /\ dirs' = dirs \cup {d}
             /\ inv' = [inv EXCEPT ![i] = [Advance(@) EXCEPT !.ws = Some(d)]]
             /\ files' = files
       \/ Unwind(i, "create tempdir")
    /\ UNCHANGED <<m, opt_pc, ret>>

\* File::create(main_file).expect("create main") and
\* File::create(gen_file).expect("create file")
FileCreate(i) ==
    /\ inv[i].pc \in {"create_main", "create_file"}
    /\ LET r == inv[i]
           name == IF r.pc = "create_main" THEN "main.rs" ELSE GenFile(r.kind)
       IN
       \/ /\ Unwrap(r.ws) \in dirs
          /\ files' = WriteFile(files, Unwrap(r.ws), name, i, "empty")
          /\ inv' = [inv EXCEPT ![i] = Advance(@)]
          /\ dirs' = dirs
       \/ Unwind(i, IF r.pc = "create_main" THEN "create main" ELSE "create file")
    /\ UNCHANGED <<m, opt_pc, ret>>

\* main.write_all(..).expect("write contents of main")
WriteMain(i) ==
    /\ inv[i].pc = "write_main"
    /\ \/ /\ files' = {IF f.dir = Unwrap(inv[i].ws) /\ f.name = "main.rs" /\ f.by = i
                       THEN [f EXCEPT !.data = "driver"] ELSE f : f \in files}
          /\ inv' = [inv EXCEPT ![i] = Advance(@)]
          /\ dirs' = dirs
       \/ Unwind(i, "write contents of main")
    /\ UNCHANGED <<m, opt_pc, ret>>

\* codegen(package, &config, Box::new(file)).expect("lucet_idl codegen"): the
\* source is written through the handle File::create returned
Codegen(i) ==
    /\ inv[i].pc = "codegen"
    /\ \/ /\ files' = {IF f.dir = Unwrap(inv[i].ws) /\ f.name = GenFile(inv[i].kind) /\ f.by = i
                       THEN [f EXCEPT !.data = "source"] ELSE f : f \in files}
          /\ inv' = [inv EXCEPT ![i] = Advance(@)]
          /\ dirs' = dirs
       \/ Unwind(i, "lucet_idl codegen")
    /\ UNCHANGED <<m, opt_pc, ret>>

\* Command::new("rustc" | "cc")...status().expect("run ..."): the toolchain runs
\* to completion and exits with status zero, leaving the artifact, or with a
\* non-zero status, leaving nothing or a partial output; or it cannot be started
RunToolchain(i) ==
    /\ inv[i].pc = "run_toolchain"
    /\ LET r == inv[i]
           d == Unwrap(r.ws)
           seen == Writers(files, d, ToolchainInputs(r.kind))
       IN
       \/ /\ d \in dirs
          /\ files' = WriteFile(files, d, OutFile(r.kind), i, "artifact")
          /\ inv' = [inv EXCEPT ![i] = [@ EXCEPT !.pc = "assert", !.status = Some(0),
                                                 !.read_by = @ \cup seen]]
          /\ dirs' = dirs
       \/ /\ \/ files' = files
             \/ d \in dirs /\ files' = WriteFile(files, d, OutFile(r.kind), i, "partial")
          /\ inv' = [inv EXCEPT ![i] = [@ EXCEPT !.pc = "dump", !.status = Some(1),
                                                 !.read_by = @ \cup seen]]
          /\ dirs' = dirs
       \/ Unwind(i, RunMsg(r.kind))
    /\ UNCHANGED <<m, opt_pc, ret>>

\* `if !cmd.success() { Command::new("cat").arg(gen_file).status().expect("debug output"); }`
\* cat ran, whatever its exit status (which is dropped), or could not be started
Dump(i) ==
    /\ inv[i].pc = "dump"
    /\ LET r == inv[i]
           seen == Writers(files, Unwrap(r.ws), {GenFile(r.kind)})
       IN
       \/ /\ inv' = [inv EXCEPT ![i] = [@ EXCEPT !.pc = "assert", !.dump = "cat_ran",
                                                 !.read_by = @ \cup seen]]
          /\ UNCHANGED <<dirs, files>>
       \/ Unwind(i, "debug output")
    /\ UNCHANGED <<m, opt_pc, ret>>

\* mutant: the assertion is missing, so a failed build falls through
AssertSuccess_Missing(i) ==
    /\ inv[i].pc = "assert"
    /\ inv' = [inv EXCEPT ![i] = Advance(@)]
    /\ UNCHANGED <<m, opt_pc, ret, dirs, files>>

\* assert!(cmd.success(), "failure to compile generated code")
AssertSuccess(i) ==
    /\ inv[i].pc = "assert"
    /\ \/ /\ inv[i].status = Some(0)
          /\ inv' = [inv EXCEPT ![i] = Advance(@)]
          /\ UNCHANGED <<dirs, files>>
       \/ /\ inv[i].status # Some(0)
          /\ Unwind(i, "failure to compile generated code")
    /\ UNCHANGED <<m, opt_pc, ret>>

\* File::open(wasm_file).expect("open wasm file")
OpenWasm(i) ==
    /\ inv[i].pc = "open_wasm"
    /\ \/ /\ \E f \in files : f.dir = Unwrap(inv[i].ws) /\ f.name = "example.wasm"
          /\ inv' = [inv EXCEPT ![i] = [Advance(@) EXCEPT !.opened = TRUE]]
          /\ UNCHANGED <<dirs, files>>
       \/ Unwind(i, "open wasm file")
    /\ UNCHANGED <<m, opt_pc, ret>>

\* wasm.read_to_end(&mut buf).expect("read wasm file"); buf is the return value
ReadWasm(i) ==
    /\ inv[i].pc = "read_wasm"
    /\ \/ \E f \in files :
             /\ f.dir = Unwrap(inv[i].ws) /\ f.name = "example.wasm"
             /\ inv' = [inv EXCEPT ![i] = [Advance(@) EXCEPT !.buf = Some(f.data),
                                                            !.read_by = @ \cup {f.by}]]
             /\ UNCHANGED <<dirs, files>>
       \/ Unwind(i, "read wasm file")
    /\ UNCHANGED <<m, opt_pc, ret>>

\* the end of the function body: `tempdir` goes out of scope and is dropped,
\* and the caller gets the return value
Return(i) ==
    /\ inv[i].pc = "return"
    /\ inv' = [inv EXCEPT ![i] = [@ EXCEPT !.pc = "done", !.ws = None, !.torn = TRUE]]
    /\ DropTempDir(i)
    /\ UNCHANGED <<m, opt_pc, ret>>

\* one statement of invocation i
Step(i) ==
    \/ TempDirNew(i)
    \/ FileCreate(i)
    \/ WriteMain(i)
    \/ Codegen(i)
    \/ RunToolchain(i)
    \/ Dump(i)
    \/ AssertSuccess(i)
    \/ OpenWasm(i)
    \/ ReadWasm(i)
    \/ Return(i)

InitBuild ==
    /\ m = None
    /\ opt_pc = "unused"
    /\ ret = None
    /\ inv = InvInit
    /\ dirs = {}
    /\ files = {}

NextBuild ==
    \/ \E i \in 1..MaxInv, k \in Kinds : Invoke(i, k)
    \/ \E i \in 1..MaxInv : Step(i)

SpecBuild == InitBuild /\ [][NextBuild]_vars

---------------------------------------------------------------------------
(* Properties of the option functions *)

CpuReturned == opt_pc = "cpu_features_from_args"

FromArgsReturned == opt_pc = "from_args"

AllWellFormed(fs) == \A k \in 1..Len(fs) : fs[k] \in WellFormedTokens

\* the name of the feature each SpecificFeatures field stands for
NameOfFlag(flag) ==
    CASE flag = "has_sse3" -> Str_sse3
      [] flag = "has_ssse3" -> Str_ssse3
      [] flag = "has_sse41" -> Str_sse41
      [] flag = "has_sse42" -> Str_sse42
      [] flag = "has_popcnt" -> Str_popcnt
      [] flag = "has_avx" -> Str_avx
      [] flag = "has_bmi1" -> Str_bmi1
      [] flag = "has_bmi2" -> Str_bmi2
      [] flag = "has_lzcnt" -> Str_lzcnt

\* the positions of the tokens that name a flag
Naming(fs, flag) ==
    {k \in 1..Len(fs) : fs[k] \in {<<"+">> \o NameOfFlag(flag), <<"-">> \o NameOfFlag(flag)}}

\* the feature set of the preset given, or of the baseline preset when none is
BaselineOf(cpu) ==
    TargetCpuInto(IF cpu = None THEN "Baseline" ELSE Unwrap(PresetOfName(Unwrap(cpu))))

\* C1: for an accepted preset name (or none) and well-formed tokens,
\* cpu_features_from_args returns DetectCpuid if and only if no preset is given
\* and the token sequence is empty, and Specify in every other case.
C1_DetectIffNothingGiven ==
    (/\ CpuReturned
     /\ m.target_cpu = None \/ Unwrap(m.target_cpu) \in AcceptedPresets
     /\ AllWellFormed(m.target_feature))
    => /\ Unwrap(ret).tag = "Ok"
       /\ Unwrap(ret).val = DetectCpuid <=> (m.target_cpu = None /\ m.target_feature = <<>>)
       /\ Unwrap(ret).val # DetectCpuid => Unwrap(ret).val.mode = "Specify"

\* C1 witness: a preset alone, no tokens, resolved to Specify
C1_Witness ==
    /\ CpuReturned
    /\ m.target_cpu = Some(Str_nehalem)
    /\ m.target_feature = <<>>
    /\ Unwrap(ret) = Ok(Specify(TargetCpuInto("Nehalem")))

\* C2: when cpu_features_from_args returns Specify, each of the nine flags has
\* the sign of the last token, in input order, that names it, and the baseline
\* value of the preset (the baseline preset when none is given) when no token
\* names it; haswell with [+avx, -avx] has avx disabled and the rest at haswell's
\* baseline.
C2_LastTokenWins ==
    (CpuReturned /\ Unwrap(ret).tag = "Ok" /\ Unwrap(ret).val # DetectCpuid)
    => /\ \A flag \in FeatureFlags :
            LET ks == Naming(m.target_feature, flag) IN
            IF ks = {}
            THEN Unwrap(ret).val.sfs[flag] = BaselineOf(m.target_cpu)[flag]
            ELSE LET last == CHOOSE k \in ks : \A j \in ks : j <= k IN
                 Unwrap(ret).val.sfs[flag] = (m.target_feature[last][1] = "+")
       /\ (m.target_cpu = Some(Str_haswell)
           /\ m.target_feature = << <<"+">> \o Str_avx, <<"-">> \o Str_avx >>)
          => Unwrap(ret).val.sfs = [TargetCpuInto("Haswell") EXCEPT !["has_avx"] = FALSE]

\* C2 witness: haswell with [+avx, -avx]
C2_Witness ==
    /\ CpuReturned
    /\ m.target_cpu = Some(Str_haswell)
    /\ m.target_feature = << <<"+">> \o Str_avx, <<"-">> \o Str_avx >>
    /\ Unwrap(ret).tag = "Ok"
    /\ Unwrap(ret).val.mode = "Specify"
    /\ ~Unwrap(ret).val.sfs["has_avx"]
    /\ Unwrap(ret).val.sfs["has_bmi2"]

\* C3 as stated: for every preset name outside the accepted set, with any
\* tokens, cpu_features_from_args returns an error and from_args returns no
\* Options.
C3_NameOutsideAcceptedSetIsError ==
    (IsSome(m.target_cpu) /\ Unwrap(m.target_cpu) \notin AcceptedPresets)
    => /\ CpuReturned => Unwrap(ret).tag = "Err"
       /\ FromArgsReturned => Unwrap(ret).tag # "Ok"

\* C3 as amended: for every preset name whose lower-cased form is outside the
\* accepted set, with any tokens, cpu_features_from_args returns an error (and
\* no CpuFeatures value) and from_args returns no Options; a name that differs
\* from an accepted one only in letter case is not such an error.
C3_UnknownPresetIsError ==
    /\ (IsSome(m.target_cpu) /\ to_lowercase(Unwrap(m.target_cpu)) \notin AcceptedPresets)
       => /\ CpuReturned => Unwrap(ret) = Err(<<"unsupported CPU", Unwrap(m.target_cpu)>>)
          /\ FromArgsReturned => Unwrap(ret).tag # "Ok"
    /\ (IsSome(m.target_cpu) /\ to_lowercase(Unwrap(m.target_cpu)) \in AcceptedPresets
        /\ CpuReturned)
       => Unwrap(ret).tag # "Err"

\* C3 witness: from_args hands the resolver's error for "notacpu" to its caller
C3_Witness ==
    /\ FromArgsReturned
    /\ m.target_cpu = Some(Str_notacpu)
    /\ m.target_feature = <<Str_avx>>
    /\ Unwrap(ret) = Err(<<"unsupported CPU", Str_notacpu>>)

\* C4: every Options value from_args returns has a secret-key path when sign is
\* set and a public-key path when verify is set (a request lacking its key path
\* is a configuration error).
C4_SigningNeedsKeyPaths ==
    (FromArgsReturned /\ Unwrap(ret).tag = "Ok")
    => /\ Unwrap(ret).val.sign => IsSome(Unwrap(ret).val.sk_path)
       /\ Unwrap(ret).val.verify => IsSome(Unwrap(ret).val.pk_path)

\* the byte count each well-formed size string explored stands for
BytesOf(desc) ==
    CASE desc = Size_4096 -> 4096
      [] desc = Size_4KiB -> 4096
      [] desc = Size_8192 -> 8192
      [] desc = Size_1p5KiB -> 1536

WellFormedSizes == {Size_4096, Size_4KiB, Size_8192, Size_1p5KiB}

Supplied(arg) == IF arg = None THEN None ELSE Some(BytesOf(Unwrap(arg)))

\* C5: the Options from_args returns carries each of reserved_size,
\* min_reserved_size and max_reserved_size exactly as supplied (absent when not
\* supplied), whatever the other size arguments are: an exact size neither
\* changes nor clears min/max.  Well-formed sizes are never the reason from_args
\* fails.
C5_ExactSizeKeepsMinMax ==
    FromArgsReturned
    => /\ Unwrap(ret).tag = "Ok"
          => /\ Unwrap(ret).val.reserved_size = Supplied(m.reserved_size)
             /\ Unwrap(ret).val.min_reserved_size = Supplied(m.min_reserved_size)
             /\ Unwrap(ret).val.max_reserved_size = Supplied(m.max_reserved_size)
             /\ Unwrap(ret).val.guard_size = Supplied(m.guard_size)
       /\ (/\ \A a \in {m.reserved_size, m.min_reserved_size, m.max_reserved_size,
                        m.guard_size} : a = None \/ Unwrap(a) \in WellFormedSizes
           /\ Unwrap(ret).tag = "Err")
          => Unwrap(ret).err[1] = "unsupported CPU"

\* C5 witness: all three sizes supplied, all three kept
C5_Witness ==
    /\ FromArgsReturned
    /\ m.reserved_size = Some(Size_1p5KiB)
    /\ m.min_reserved_size = Some(Size_4096)
    /\ m.max_reserved_size = Some(Size_8192)
    /\ Unwrap(ret).tag = "Ok"
    /\ Unwrap(ret).val.reserved_size = Some(1536)
    /\ Unwrap(ret).val.min_reserved_size = Some(4096)
    /\ Unwrap(ret).val.max_reserved_size = Some(8192)

\* C9: an emit value other than clif, obj or so reaching from_args comes back
\* to the caller as an error value.
C9_UnknownEmitIsErrorValue ==
    (FromArgsReturned /\ m.emit \notin {None, Some("clif"), Some("obj"), Some("so")})
    => Unwrap(ret).tag = "Err"

---------------------------------------------------------------------------
(* Properties of the verification functions *)

Live(i) == IsSome(inv[i].ws)

\* the position of a statement in the function bodies
Rank(pc) ==
    CASE pc = "idle" -> 0
      [] pc = "create_tempdir" -> 1
      [] pc = "create_main" -> 2
      [] pc = "write_main" -> 3
      [] pc = "create_file" -> 4
      [] pc = "codegen" -> 5
      [] pc = "run_toolchain" -> 6
      [] pc = "dump" -> 7
      [] pc = "assert" -> 8
      [] pc = "open_wasm" -> 9
      [] pc = "read_wasm" -> 10
      [] pc = "return" -> 11
      [] pc = "done" -> 12

\* C6: an invocation that has created its workspace reaches teardown on every
\* exit path, and never before its outcome (Succeeded or Failed) is determined.
\* Stated so that a finite run refutes it: an invocation holding a workspace has
\* not ended and can always execute its next statement, every statement moves it
\* strictly forward through the function body, and the step that ends it, by
\* return or by panic, removes the workspace directory and every file in it.
C6_TearDownAlwaysFollows ==
    /\ [](\A i \in 1..MaxInv :
            /\ inv[i].torn => inv[i].outcome \in {"Succeeded", "Failed"}
            /\ Live(i) => (inv[i].pc # "done" /\ ENABLED Step(i)))
    /\ [][\A i \in 1..MaxInv :
            /\ inv'[i] # inv[i] => Rank(inv'[i].pc) > Rank(inv[i].pc)
            /\ (Live(i) /\ inv'[i].pc = "done")
               => /\ inv'[i].torn
                  /\ inv'[i].outcome \in {"Succeeded", "Failed"}
                  /\ Unwrap(inv[i].ws) \notin dirs'
                  /\ \A f \in files' : f.dir # Unwrap(inv[i].ws)]_vars

\* C6 witness: torn down after the diagnostic dump itself failed
C6_Witness ==
    \E i \in 1..MaxInv :
        /\ inv[i].torn
        /\ inv[i].status = Some(1)
        /\ inv[i].msg = "debug output"
        /\ \A f \in files : f.by # i

\* C7: concurrent invocations never collide: the workspaces alive at the same
\* time are distinct existing directories, every file belongs to the workspace
\* of the invocation that wrote it, and no invocation reads a file another one
\* wrote.
C7_WorkspacesDisjoint ==
    /\ \A i, j \in 1..MaxInv : (i # j /\ Live(i) /\ Live(j)) => inv[i].ws # inv[j].ws
    /\ \A i \in 1..MaxInv : Live(i) => Unwrap(inv[i].ws) \in dirs
    /\ \A f \in files : inv[f.by].ws = Some(f.dir)
    /\ \A i \in 1..MaxInv : inv[i].read_by \subseteq {i}

\* C7 witness: two invocations of the same backend, both holding an example.c
C7_Witness ==
    \E f, g \in files :
        /\ f.by # g.by
        /\ f.name = "example.c" /\ g.name = "example.c"
        /\ f.data = "source" /\ g.data = "source"
        /\ inv[f.by].pc = "assert" /\ inv[g.by].pc = "run_toolchain"

\* C8: rust_wasm_codegen opens and reads the artifact only after the toolchain
\* exited with status zero and while its workspace still exists; the bytes it
\* returns are the complete artifact; after a non-zero exit it fails without
\* having opened the file or read anything.
C8_ArtifactOnlyAfterSuccess ==
    /\ [](\A i \in 1..MaxInv :
            /\ (inv[i].opened \/ IsSome(inv[i].buf)) => inv[i].status = Some(0)
            /\ IsSome(inv[i].buf) => inv[i].buf = Some("artifact")
            /\ (inv[i].pc = "done" /\ inv[i].status = Some(1))
               => (inv[i].outcome = "Failed" /\ ~inv[i].opened /\ inv[i].buf = None))
    /\ [][\A i \in 1..MaxInv :
            (inv'[i].opened # inv[i].opened \/ inv'[i].buf # inv[i].buf)
            => (Live(i) /\ Unwrap(inv[i].ws) \in dirs /\ ~inv[i].torn)]_vars

\* C8 witness: a successful rust_wasm_codegen that returned the artifact
C8_Witness ==
    \E i \in 1..MaxInv :
        /\ inv[i].kind = "rust_wasm_codegen"
        /\ inv[i].pc = "done"
        /\ inv[i].outcome = "Succeeded"
        /\ inv[i].buf = Some("artifact")
        /\ inv[i].torn

\* C10: after a non-zero toolchain exit the invocation reports the original
\* build failure, whether the dump succeeded or itself failed.
C10_DumpNeverMasksBuildFailure ==
    \A i \in 1..MaxInv :
        (inv[i].pc = "done" /\ inv[i].status = Some(1))
        => (inv[i].outcome = "Failed" /\ inv[i].msg = "failure to compile generated code")

====
